---- MODULE Spec2Model ----
(***************************************************************************)
(* A model of the ReviewPaperPublications-PRISMA scripts.                  *)
(*                                                                         *)
(* The repository is a set of standalone programs; each part of the model  *)
(* has a specification of its own over the shared variables:               *)
(*   SpecKappa    calculate_cohens_kappa (prisma_study_methodology.py)     *)
(*   SpecScripts  the nine script entry points: their file reads and       *)
(*                writes, their exception handlers and their menus         *)
(*   SpecSim      one run of the study selection simulation                *)
(*                (prisma_study_selection.main or run_custom_simulation)   *)
(*   SpecSeed     two PRISMAStudySelection simulators sharing the global   *)
(*                random number generators                                 *)
(*   SpecExport   the files create_properly_formatted_csv writes, as text, *)
(*                and the tables read back from them                       *)
(*   SpecMethod   the methodology object (prisma_study_methodology.py):    *)
(*                its numbers, generate_prisma_flow, the exported summary  *)
(*                table, and the configuration of prisma_config.py         *)
(***************************************************************************)
EXTENDS Integers, Sequences, FiniteSets, TLC

VARIABLES
    confusion_matrix,   \* the argument handed to calculate_cohens_kappa
    kappa_out,          \* what the call produced: nothing yet, a pair, or an exception
    script,             \* the entry point this process runs
    input_file,         \* the table file the script is pointed at, as it is on disk
    run,                \* the running script: position, loaded table, console, I/O done
    sims,               \* the PRISMAStudySelection objects, by name
    rng,                \* the module-level generators random and np.random
    stream,             \* the numbers the generators have produced, by seed and position
    formatter,          \* fix_csv_formatting: the table, the files written, the tables read back
    methodology         \* the methodology object, the data it returned and the table it exported

kappaVars == <<confusion_matrix, kappa_out>>

scriptVars == <<script, input_file, run>>

simVars == <<sims, rng, stream>>

vars == <<confusion_matrix, kappa_out, script, input_file, run, sims, rng, stream, formatter, methodology>>

-----------------------------------------------------------------------------
(* Bounds of the model. *)

\* Each cell of an enumerated confusion matrix is in 0..MaxCount.
MaxCount == 5

\* An input table holds 0..MaxRows data records.
MaxRows == 2

\* A menu session reads at most MaxInputs menu choices before the user leaves.
MaxInputs == 3

\* The synthetic dataset of the default simulation holds MaxRecords studies
\* (initial_records, 462 in the source); the other target numbers are scaled
\* with it, see ScaledTargets.
MaxRecords == 4

-----------------------------------------------------------------------------
(* Exact rational arithmetic: a rational is <<numerator, denominator>>,    *)
(* denominator > 0, in lowest terms.                                       *)

RECURSIVE GCD(_, _)
GCD(x, y) == IF y = 0 THEN x ELSE GCD(y, x % y)

Abs(x) == IF x < 0 THEN -x ELSE x

Rat(num, den) ==
    LET g == GCD(Abs(num), den)
    IN  <<num \div g, den \div g>>

RatAdd(p, q) ==
    LET g == GCD(p[2], q[2])
        l == (p[2] \div g) * q[2]
    IN  Rat(p[1] * (l \div p[2]) + q[1] * (l \div q[2]), l)

RatNeg(p) == <<-p[1], p[2]>>

RatSub(p, q) == RatAdd(p, RatNeg(q))

RatMul(p, q) ==
    LET g1 == GCD(Abs(p[1]), q[2])
        g2 == GCD(Abs(q[1]), p[2])
    IN  Rat((p[1] \div g1) * (q[1] \div g2), (p[2] \div g2) * (q[2] \div g1))

\* p / q for q > 0
RatDiv(p, q) == RatMul(p, <<q[2], q[1]>>)

RatLess(p, q) == p[1] * q[2] < q[1] * p[2]

One == <<1, 1>>

-----------------------------------------------------------------------------
(* prisma_study_methodology.py: PRISMAStudySelection.calculate_cohens_kappa *)

\* confusion_matrix=None, the default argument
None == [is_none |-> TRUE]

\* The matrix the method builds when it is called without one.
DefaultConfusionMatrix ==
    [include_include |-> 75, include_exclude |-> 8,
     exclude_include |-> 9, exclude_exclude |-> 370]

Matrix(a, b, c, d) ==
    [include_include |-> a, include_exclude |-> b,
     exclude_include |-> c, exclude_exclude |-> d]

Poor == "Poor agreement"
Slight == "Slight agreement"
Fair == "Fair agreement"
Moderate == "Moderate agreement"
Substantial == "Substantial agreement"
AlmostPerfect == "Almost perfect agreement"

(* The method computes in IEEE-754 doubles.  A double result differs from   *)
(* the exact quotient by a relative error near 1e-16, which decides an      *)
(* outcome only where the exact value sits on a comparison threshold        *)
(* (0, 0.2, 0.4, 0.6, 0.8) or on a rounding tie (an odd multiple of        *)
(* 0.0005).  For the matrices with cells in 0..MaxCount+1 where that        *)
(* happens, these are the inputs whose double lands below, and above, the   *)
(* exact value (evaluating lines 96-115 as written); everywhere else on     *)
(* that domain the double compares and rounds as the exact value does.      *)
RoundsBelow ==
    { <<0,2,5,5>>, <<0,5,2,5>>, <<1,0,1,1>>, <<1,0,4,5>>, <<1,1,0,1>>, <<1,4,0,5>>,
      <<2,0,2,2>>, <<2,0,3,5>>, <<2,0,4,5>>, <<2,1,3,4>>, <<2,2,0,2>>, <<2,3,0,5>>,
      <<2,3,1,4>>, <<2,4,0,5>>, <<3,0,3,3>>, <<3,1,2,4>>, <<3,2,1,4>>, <<3,2,2,3>>,
      <<3,3,0,3>>, <<4,0,4,4>>, <<4,1,2,3>>, <<4,1,3,2>>, <<4,2,1,3>>, <<4,3,1,2>>,
      <<4,4,0,4>>, <<5,0,3,2>>, <<5,0,4,1>>, <<5,0,4,2>>, <<5,0,5,5>>, <<5,2,5,0>>,
      <<5,3,0,2>>, <<5,4,0,1>>, <<5,4,0,2>>, <<5,5,0,5>>, <<5,5,2,0>>, <<6,0,6,6>>,
      <<6,4,4,6>>, <<6,6,0,6>> }

RoundsAbove ==
    { <<0,1,5,1>>, <<0,5,1,1>>, <<1,0,2,6>>, <<1,1,4,6>>, <<1,1,5,0>>, <<1,2,0,6>>,
      <<1,4,1,6>>, <<1,5,1,0>>, <<2,1,6,3>>, <<2,6,1,3>>, <<3,0,2,5>>, <<3,1,6,2>>,
      <<3,2,0,5>>, <<3,6,1,2>>, <<4,1,1,4>>, <<5,0,2,3>>, <<5,2,0,3>>, <<6,0,2,1>>,
      <<6,1,4,1>>, <<6,2,0,1>>, <<6,4,1,1>> }

\* The sign of the double's error where it matters: -1, 0 or 1.
FloatError(a, b, c, d) ==
    IF <<a, b, c, d>> \in RoundsBelow THEN -1
    ELSE IF <<a, b, c, d>> \in RoundsAbove THEN 1
    ELSE 0

\* A double is modelled as its exact value and the sign of its error.
Float(val, err) == [val |-> val, err |-> err]

\* kappa < t, for the double kappa and the literal t
FloatLess(k, t) == RatLess(k.val, t) \/ (k.val = t /\ k.err < 0)

\* round(kappa, 3), in thousandths: the nearest multiple of 0.001 to the
\* double; at an exact tie the double's error decides, and a double that is
\* the tie itself goes to the even neighbour.
round3(k) ==
    LET x == 1000 * k.val[1]
        den == k.val[2]
        q == x \div den
        r == x - q * den
    IN  IF 2 * r < den THEN q
        ELSE IF 2 * r > den THEN q + 1
        ELSE IF k.err < 0 THEN q
        ELSE IF k.err > 0 THEN q + 1
        ELSE IF q % 2 = 0 THEN q ELSE q + 1

\* A slip in lines 103-109: reviewer 1's rates used for both reviewers.
ExpectedAgreementOneReviewer(a, b, c, d, n) ==
    LET p1_include == Rat(a + b, n)
        p1_exclude == Rat(c + d, n)
    IN  RatAdd(RatMul(p1_include, p1_include), RatMul(p1_exclude, p1_exclude))

\* Lines 101-109: the expected agreement from the four marginal rates.
ExpectedAgreement(a, b, c, d, n) ==
    LET p1_include == Rat(a + b, n)
        p1_exclude == Rat(c + d, n)
        p2_include == Rat(a + c, n)
        p2_exclude == Rat(b + d, n)
    IN  RatAdd(RatMul(p1_include, p2_include), RatMul(p1_exclude, p2_exclude))

\* Lines 117-129: the if/elif chain over the unrounded kappa.
Interpretation(kappa) ==
    IF FloatLess(kappa, <<0, 1>>) THEN Poor
    ELSE IF FloatLess(kappa, <<1, 5>>) THEN Slight
    ELSE IF FloatLess(kappa, <<2, 5>>) THEN Fair
    ELSE IF FloatLess(kappa, <<3, 5>>) THEN Moderate
    ELSE IF FloatLess(kappa, <<4, 5>>) THEN Substantial
    ELSE AlmostPerfect

\* The whole method: the returned pair (kappa in thousandths, interpretation),
\* or the exception the division by n = 0 raises.
calculate_cohens_kappa(cm) ==
    LET m == IF cm = None THEN DefaultConfusionMatrix ELSE cm
        a == m.include_include
        b == m.include_exclude
        c == m.exclude_include
        d == m.exclude_exclude
        n == a + b + c + d
    IN  IF n = 0
        THEN [raised |-> "ZeroDivisionError"]
        ELSE LET po == Rat(a + d, n)
                 pe == ExpectedAgreement(a, b, c, d, n)
                 kappa == IF pe = One
                          THEN Float(One, 0)
                          ELSE Float(RatDiv(RatSub(po, pe), RatSub(One, pe)),
                                     FloatError(a, b, c, d))
             IN  [raised |-> "none",
                  kappa_value |-> round3(kappa),
                  interpretation |-> Interpretation(kappa)]

\* Lines 456-462: the Landis & Koch scale as display_kappa_calculation_details
\* prints it, over a value in thousandths; values between two printed bands
\* (0.201 .. 0.209, ...) are in no band.
NoBand == "no band"

LandisKochScale(k3) ==
    IF k3 < 0 THEN Poor
    ELSE IF k3 <= 200 THEN Slight
    ELSE IF 210 <= k3 /\ k3 <= 400 THEN Fair
    ELSE IF 410 <= k3 /\ k3 <= 600 THEN Moderate
    ELSE IF 610 <= k3 /\ k3 <= 800 THEN Substantial
    ELSE IF 810 <= k3 /\ k3 <= 1000 THEN AlmostPerfect
    ELSE NoBand

NotCalled == [raised |-> "not called"]

Matrices ==
    {Matrix(a, b, c, d) : a \in 0..MaxCount, b \in 0..MaxCount,
                          c \in 0..MaxCount, d \in 0..MaxCount}

InitKappa ==
    /\ confusion_matrix \in Matrices \cup {None}
    /\ kappa_out = NotCalled
    /\ script = "none"
    /\ input_file = [kind |-> "none"]
    /\ run = [pc |-> "idle"]
    /\ sims = <<>>
    /\ rng = <<>>
    /\ stream = {}
    /\ formatter = <<>>
    /\ methodology = <<>>

\* A caller invokes the method on the matrix it holds.
CallKappa ==
    /\ kappa_out = NotCalled
    /\ kappa_out' = calculate_cohens_kappa(confusion_matrix)
    /\ UNCHANGED <<confusion_matrix, scriptVars, simVars, formatter, methodology>>

\* The caller takes up another matrix and calls again.
NextMatrix ==
    /\ kappa_out # NotCalled
    /\ confusion_matrix' \in {None, Matrix(0, 0, 0, 0), Matrix(1, 0, 2, 1)}
    /\ kappa_out' = NotCalled
    /\ UNCHANGED <<scriptVars, simVars, formatter, methodology>>

NextKappa == CallKappa \/ NextMatrix

SpecKappa == InitKappa /\ [][NextKappa]_vars

-----------------------------------------------------------------------------
(* Claims about calculate_cohens_kappa, checked under SpecKappa. *)

\* The four counts the call worked on.
GivenMatrix ==
    IF confusion_matrix = None THEN DefaultConfusionMatrix ELSE confusion_matrix

CellA == GivenMatrix.include_include
CellB == GivenMatrix.include_exclude
CellC == GivenMatrix.exclude_include
CellD == GivenMatrix.exclude_exclude
CellN == CellA + CellB + CellC + CellD

\* n^2 * pe of the textbook: (a+b)(a+c) + (c+d)(b+d)
ChanceProduct == (CellA + CellB) * (CellA + CellC) + (CellC + CellD) * (CellB + CellD)

Returned == kappa_out # NotCalled /\ kappa_out.raised = "none"

\* C1: for every matrix of non-negative counts with n > 0 and pe # 1, the
\* returned kappa is (po - pe) / (1 - pe) rounded to 3 decimals, with
\* po = (a+d)/n and pe = ((a+b)(a+c) + (c+d)(b+d)) / n^2: the returned value
\* is a multiple of 0.001 no further than 0.0005 from that quotient, which is
\* (n(a+d) - n^2 pe) / (n^2 - n^2 pe).
C1_KappaIsTextbookValue ==
    (Returned /\ CellN > 0 /\ ChanceProduct # CellN * CellN) =>
        LET num == CellN * (CellA + CellD) - ChanceProduct
            den == CellN * CellN - ChanceProduct
        IN  2 * Abs(kappa_out.kappa_value * den - 1000 * num) <= den

\* C1's case: the call returned for a matrix whose exact kappa, -5/16, is a
\* rounding tie, and for the built-in matrix, whose kappa is 0.876.
C1_Witness ==
    /\ Returned
    /\ \/ confusion_matrix = Matrix(0, 2, 5, 5) /\ kappa_out.kappa_value = -313
       \/ confusion_matrix = None /\ kappa_out.kappa_value = 876

\* C5: the returned interpretation is the label the printed Landis & Koch
\* scale gives the returned 3-decimal kappa (a value the scale prints no band
\* for is left out, in the claim's favour).
C5_InterpretationFollowsPrintedScale ==
    (Returned /\ LandisKochScale(kappa_out.kappa_value) # NoBand) =>
        kappa_out.interpretation = LandisKochScale(kappa_out.kappa_value)

\* C6: the call returns a (kappa_value, interpretation) pair for every matrix
\* of four non-negative counts and never fails.
C6_KappaAlwaysReturns ==
    kappa_out # NotCalled => kappa_out.raised = "none"

-----------------------------------------------------------------------------
(* The script entry points.                                                *)
(*                                                                         *)
(* A run is a record: pc (position), k (index of a for loop), df (the      *)
(* loaded table), console (what the run printed last), out (the row and    *)
(* column counts it printed), errors (the handlers that caught a failure   *)
(* and printed it, in order), failures (failures raised so far), escaped   *)
(* (the exception that left the entry point), and the work done: files     *)
(* read, files written, files checked, menu options served, menu choices   *)
(* read.  What the environment decides (a write that fails, a file that    *)
(* cannot be read back, what the user types) is chosen with \E.            *)

Scripts ==
    {"read_csv_display", "dataset_summary", "enhanced_csv_viewer",
     "fix_csv_formatting", "simple_csv_display", "verify_csv_formatting",
     "prisma_runner", "prisma_study_methodology", "prisma_study_selection"}

\* The scripts that load the publications table.
TableScripts ==
    {"read_csv_display", "dataset_summary", "enhanced_csv_viewer",
     "fix_csv_formatting", "simple_csv_display", "verify_csv_formatting"}

AllColumns ==
    <<"Title", "Authors", "Year", "Journal_Conference", "DOI_URL",
      "Database_source", "Inclusion_Exclusion_decision",
      "Reason_for_inclusion_exclusion", "Abstract", "Internal_Source_ID">>

\* The header rows tried: the full table, one without Year, one with Title only.
Headers ==
    {AllColumns,
     <<"Title", "Authors", "Journal_Conference", "DOI_URL",
       "Database_source", "Inclusion_Exclusion_decision",
       "Reason_for_inclusion_exclusion", "Abstract", "Internal_Source_ID">>,
     <<"Title">>}

\* What can be on disk: no file, a file read_csv fails on, or a table with a
\* header row and nrows data records.
InputFiles ==
    {[kind |-> "missing"], [kind |-> "malformed"]}
    \cup {[kind |-> "table", header |-> h, nrows |-> n] : h \in Headers, n \in 0..MaxRows}

NoInput == [kind |-> "none"]

NoDf == [loaded |-> FALSE]

NoOut == [printed |-> FALSE]

\* pd.read_csv / pd.read_excel on a table file: the header row gives the
\* columns, every further record one row.
read_csv(file) == [loaded |-> TRUE, columns |-> file.header, nrows |-> file.nrows]

Range(seq) == {seq[i] : i \in 1..Len(seq)}

\* df[col] for every col of cols raises no KeyError
Has(df, cols) == cols \subseteq Range(df.columns)

\* A handler caught a failure and printed it.
Caught(r, handler) ==
    [r EXCEPT !.errors = Append(@, handler), !.failures = @ + 1, !.console = "error"]

\* A failure met no handler: the exception leaves the entry point.
Escaped(r, exc) ==
    [r EXCEPT !.escaped = exc, !.failures = @ + 1, !.pc = "crashed"]

\* n files are written one after the other, none inside a try; done of them
\* succeed, and the first that fails raises.
WriteFiles(r, n, done) ==
    IF done = n
    THEN [r EXCEPT !.writes = @ + n]
    ELSE Escaped([r EXCEPT !.writes = @ + done + 1], "OSError")

StartRun(s) ==
    [pc |-> CASE s = "verify_csv_formatting" -> "verify"
              [] s = "prisma_runner" -> "menu"
              [] OTHER -> "start",
     k |-> 1, df |-> NoDf, console |-> "", out |-> NoOut,
     errors |-> <<>>, failures |-> 0, escaped |-> "none",
     reads |-> 0, writes |-> 0, checks |-> 0, options |-> 0, inputs |-> 0,
     choice |-> <<>>]

InitScripts ==
    /\ script \in Scripts
    /\ input_file \in (IF script \in TableScripts THEN InputFiles ELSE {NoInput})
    /\ run = StartRun(script)
    /\ confusion_matrix = None
    /\ kappa_out = NotCalled
    /\ sims = <<>>
    /\ rng = <<>>
    /\ stream = {}
    /\ formatter = <<>>
    /\ methodology = <<>>

Fixed == UNCHANGED <<script, input_file, kappaVars, simVars, formatter, methodology>>

At(s, l) == script = s /\ run.pc = l

(* ---- read_csv_display.py ---- *)

\* read_and_display_csv, lines 16-19: the os.path.exists check
RCD_Exists ==
    /\ At("read_csv_display", "start")
    /\ run' = IF input_file.kind = "missing"
              THEN [Caught(run, "read_and_display_csv:not_found") EXCEPT !.pc = "done"]
              ELSE [run EXCEPT !.pc = "read"]
    /\ Fixed

\* lines 21-23 and the except of lines 105-110
RCD_Read ==
    /\ At("read_csv_display", "read")
    /\ LET r == [run EXCEPT !.reads = @ + 1]
       IN  run' = IF input_file.kind = "table"
                  THEN [r EXCEPT !.df = read_csv(input_file), !.pc = "display"]
                  ELSE [Caught(r, "read_and_display_csv") EXCEPT !.pc = "done"]
    /\ Fixed

\* The counts as they would be if the header line were counted as a record.
RCD_PrintCountsWithHeader(df) ==
    [printed |-> TRUE, rows |-> df.nrows + 1, cols |-> Len(df.columns)]

\* lines 30-31: the printed counts
RCD_PrintCounts(df) == [printed |-> TRUE, rows |-> df.nrows, cols |-> Len(df.columns)]

\* lines 25-103: the counts, then tables and statistics, each statistic
\* guarded by a test that its column exists
RCD_Display ==
    /\ At("read_csv_display", "display")
    /\ run' = [run EXCEPT !.out = RCD_PrintCounts(run.df), !.console = "export options",
                          !.pc = "done"]
    /\ Fixed

(* ---- scripts/dataset_summary.py ---- *)

DS_Columns ==
    {"Inclusion_Exclusion_decision", "Year", "Journal_Conference",
     "Database_source", "Reason_for_inclusion_exclusion"}

\* generate_dataset_summary, lines 32-37 and the except of lines 111-112
DS_Load ==
    /\ At("dataset_summary", "start")
    /\ LET r == [run EXCEPT !.reads = @ + 1]
       IN  run' = IF input_file.kind = "table"
                  THEN [r EXCEPT !.df = read_csv(input_file), !.pc = "summary"]
                  ELSE [Caught(r, "generate_dataset_summary") EXCEPT !.pc = "done"]
    /\ Fixed

\* lines 39-109: column look-ups and the percentages over total_pubs
DS_Summary ==
    /\ At("dataset_summary", "summary")
    /\ run' = IF Has(run.df, DS_Columns) /\ run.df.nrows > 0
              THEN [run EXCEPT !.console = "ready", !.pc = "done"]
              ELSE [Caught(run, "generate_dataset_summary") EXCEPT !.pc = "done"]
    /\ Fixed

(* ---- scripts/simple_csv_display.py ---- *)

SCD_Columns(df) ==
    {"Year", "Title", "Authors", "Journal_Conference", "Inclusion_Exclusion_decision"}
    \cup (IF df.nrows > 0 THEN {"Reason_for_inclusion_exclusion", "Abstract"} ELSE {})

\* main, lines 17-19 and the except of lines 94-95
SCD_Read ==
    /\ At("simple_csv_display", "start")
    /\ LET r == [run EXCEPT !.reads = @ + 1]
       IN  run' = IF input_file.kind = "table"
                  THEN [r EXCEPT !.df = read_csv(input_file), !.pc = "show"]
                  ELSE [Caught(r, "main") EXCEPT !.pc = "done"]
    /\ Fixed

\* lines 28-29: the printed counts
SCD_PrintCounts(df) == [printed |-> TRUE, rows |-> df.nrows, cols |-> Len(df.columns)]

\* SCD_Show with the except placed around the display only: the failure is
\* printed and main goes on to the export.
SCD_ShowResumes ==
    /\ At("simple_csv_display", "show")
    /\ LET r == [run EXCEPT !.out = SCD_PrintCounts(run.df)]
       IN  run' = IF Has(run.df, SCD_Columns(run.df))
                  THEN [r EXCEPT !.console = "statistics", !.pc = "export"]
                  ELSE [Caught(r, "main") EXCEPT !.pc = "export"]
    /\ Fixed

\* lines 27-83: the counts are printed first, then the column look-ups
SCD_Show ==
    /\ At("simple_csv_display", "show")
    /\ LET r == [run EXCEPT !.out = SCD_PrintCounts(run.df)]
       IN  run' = IF Has(run.df, SCD_Columns(run.df))
                  THEN [r EXCEPT !.console = "statistics", !.pc = "export"]
                  ELSE [Caught(r, "main") EXCEPT !.pc = "done"]
    /\ Fixed

\* SCD_Export with the export placed after main's try: a failed write
\* meets no handler.
SCD_ExportUnguarded ==
    /\ At("simple_csv_display", "export")
    /\ \E ok \in BOOLEAN :
         LET r == [run EXCEPT !.writes = @ + 1]
         IN  run' = IF ok
                    THEN [r EXCEPT !.console = "complete", !.pc = "done"]
                    ELSE Escaped(r, "OSError")
    /\ Fixed

\* lines 85-92: the export, still inside main's try
SCD_Export ==
    /\ At("simple_csv_display", "export")
    /\ \E ok \in BOOLEAN :
         LET r == [run EXCEPT !.writes = @ + 1]
         IN  run' = IF ok
                    THEN [r EXCEPT !.console = "complete", !.pc = "done"]
                    ELSE [Caught(r, "main") EXCEPT !.pc = "done"]
    /\ Fixed

(* ---- the menus of enhanced_csv_viewer.py and prisma_runner.py ---- *)

\* The characters str.strip() removes from both ends of a line.
Whitespace == {" ", "\t", "\n", "\r"}

RECURSIVE lstrip(_)
lstrip(text) ==
    IF text # <<>> /\ Head(text) \in Whitespace THEN lstrip(Tail(text)) ELSE text

RECURSIVE rstrip(_)
rstrip(text) ==
    IF text # <<>> /\ text[Len(text)] \in Whitespace
    THEN rstrip(SubSeq(text, 1, Len(text) - 1))
    ELSE text

\* input(...).strip(), enhanced_csv_viewer line 161, prisma_runner line 234
strip(text) == rstrip(lstrip(text))

\* The lines a user types at a menu prompt, character by character.
MenuInputs ==
    {<<>>, <<" ">>, <<"x">>, <<"1", "0">>, <<" ", "0">>, <<"5", " ">>}
        \cup {<<d>> : d \in {"0", "1", "2", "3", "4", "5", "6", "7"}}

(* ---- scripts/enhanced_csv_viewer.py ---- *)

\* The if/elif chain of main with the empty choice left to the else branch.
ECV_BranchEmptyInvalid(choice) ==
    CASE choice = <<"1">> -> "overview"
      [] choice = <<"2">> -> "details"
      [] choice = <<"3">> -> "summary"
      [] choice = <<"4">> -> "filter"
      [] choice = <<"5">> -> "export"
      [] choice = <<"6">> -> "custom"
      [] choice = <<"0">> -> "exit"
      [] OTHER -> "invalid"

\* main, lines 163-213: the branch of the if/elif chain a choice takes
ECV_Branch(choice) ==
    CASE choice = <<>> \/ choice = <<"1">> -> "overview"
      [] choice = <<"2">> -> "details"
      [] choice = <<"3">> -> "summary"
      [] choice = <<"4">> -> "filter"
      [] choice = <<"5">> -> "export"
      [] choice = <<"6">> -> "custom"
      [] choice = <<"0">> -> "exit"
      [] OTHER -> "invalid"

\* line 161: the choices, stripped, that take the branch
ECV_Choices(branch) ==
    {choice \in {strip(line) : line \in MenuInputs} : ECV_Branch(choice) = branch}

\* The run once the prompt of line 161 has returned the choice.
ECV_Chose(choice) == [run EXCEPT !.choice = choice]

\* main, lines 144-146; a failure goes to the except of lines 215-216
ECV_Read ==
    /\ At("enhanced_csv_viewer", "start")
    /\ LET r == [run EXCEPT !.reads = @ + 1]
       IN  run' = IF input_file.kind = "table"
                  THEN [r EXCEPT !.df = read_csv(input_file), !.pc = "menu"]
                  ELSE [Caught(r, "main") EXCEPT !.pc = "done"]
    /\ Fixed

\* The menu prompt of line 161 returns one more choice.
ECV_Prompt == At("enhanced_csv_viewer", "menu") /\ run.inputs < MaxInputs

\* An option ran to its end: the loop shows the menu again.
ECV_Served(r, what) ==
    [r EXCEPT !.inputs = @ + 1, !.options = @ + 1, !.console = what, !.pc = "menu"]

\* An exception reached main's handler: printed, and main returns.
ECV_Failed(r) ==
    [Caught([r EXCEPT !.inputs = @ + 1], "main") EXCEPT !.pc = "done"]

\* lines 163-167: '' or '1'
ECV_Overview ==
    /\ ECV_Prompt
    /\ \E choice \in ECV_Choices("overview") :
         run' = ECV_Served(ECV_Chose(choice), "QUICK OVERVIEW")
    /\ Fixed

\* lines 169-177 and display_publication_details, lines 32-55: every row
\* shown needs all ten columns; a count that is no number falls back to 3
ECV_Details ==
    /\ ECV_Prompt
    /\ \E choice \in ECV_Choices("details"), answer \in {"", "2", "0", "abc"} :
         LET num_pubs == CASE answer = "2" -> 2 [] answer = "0" -> 0 [] OTHER -> 3
             shown == IF num_pubs < run.df.nrows THEN num_pubs ELSE run.df.nrows
         IN  run' = IF shown = 0 \/ Has(run.df, Range(AllColumns))
                    THEN ECV_Served(ECV_Chose(choice), "DETAILED PUBLICATION VIEW")
                    ELSE ECV_Failed(ECV_Chose(choice))
    /\ Fixed

ECV_SummaryColumns ==
    {"Inclusion_Exclusion_decision", "Year", "Database_source",
     "Journal_Conference", "Reason_for_inclusion_exclusion"}

\* lines 179-180 and create_summary_report, lines 57-104: column look-ups
\* and the inclusion rate over len(df)
ECV_Summary ==
    /\ ECV_Prompt
    /\ \E choice \in ECV_Choices("summary") :
         run' = IF Has(run.df, ECV_SummaryColumns) /\ run.df.nrows > 0
                THEN ECV_Served(ECV_Chose(choice), "COMPREHENSIVE SUMMARY REPORT")
                ELSE ECV_Failed(ECV_Chose(choice))
    /\ Fixed

ECV_FilterColumns ==
    {"Inclusion_Exclusion_decision", "Title", "Authors", "Year",
     "Journal_Conference", "Reason_for_inclusion_exclusion"}

\* lines 182-183 and filter_and_display, lines 106-125
ECV_Filter ==
    /\ ECV_Prompt
    /\ \E choice \in ECV_Choices("filter") :
         run' = IF Has(run.df, ECV_FilterColumns)
                THEN ECV_Served(ECV_Chose(choice), "FILTERING OPTIONS")
                ELSE ECV_Failed(ECV_Chose(choice))
    /\ Fixed

\* lines 185-189 and export_clean_csv, lines 127-135: the function has a
\* handler of its own, prints the error and returns False to the loop
ECV_Export ==
    /\ ECV_Prompt
    /\ \E choice \in ECV_Choices("export"), ok \in BOOLEAN :
         LET r == [ECV_Chose(choice) EXCEPT !.writes = @ + 1]
         IN  run' = IF ok
                    THEN ECV_Served(r, "Cleaned CSV exported")
                    ELSE [ECV_Served(Caught(r, "export_clean_csv"), "error")
                            EXCEPT !.options = run.options]
    /\ Fixed

\* lines 191-206: column numbers are parsed inside a try of their own
ECV_Custom ==
    /\ ECV_Prompt
    /\ \E choice \in ECV_Choices("custom"), col_input \in {"1", "99", "abc"} :
         LET r == ECV_Chose(choice)
         IN  run' = CASE col_input = "1" -> ECV_Served(r, "Custom view")
                      [] col_input = "99" ->
                            [ECV_Served(r, "Invalid column selection.")
                                EXCEPT !.options = run.options]
                      [] OTHER ->
                            [ECV_Served(Caught(r, "main:custom_view"), "error")
                                EXCEPT !.options = run.options]
    /\ Fixed

\* lines 208-210: '0'
ECV_Exit ==
    /\ At("enhanced_csv_viewer", "menu")
    /\ \E choice \in ECV_Choices("exit") :
         run' = [ECV_Chose(choice) EXCEPT
                    !.inputs = @ + 1, !.console = "Goodbye!", !.pc = "done"]
    /\ Fixed

\* lines 212-213: anything else
ECV_Invalid ==
    /\ ECV_Prompt
    /\ \E choice \in ECV_Choices("invalid") :
         run' = [ECV_Chose(choice) EXCEPT
                    !.inputs = @ + 1,
                    !.console = "Invalid choice. Please select 1-6 or 0."]
    /\ Fixed

\* line 161: input() at end of input raises EOFError, inside main's try
ECV_InputClosed ==
    /\ At("enhanced_csv_viewer", "menu")
    /\ run' = [Caught(run, "main") EXCEPT !.pc = "done"]
    /\ Fixed

(* ---- scripts/fix_csv_formatting.py ---- *)

\* create_properly_formatted_csv, lines 14-21: no try around the read
FCF_Read ==
    /\ At("fix_csv_formatting", "start")
    /\ LET r == [run EXCEPT !.reads = @ + 1]
       IN  run' = IF input_file.kind = "table"
                  THEN [r EXCEPT !.df = read_csv(input_file), !.pc = "export", !.k = 1]
                  ELSE Escaped(r, IF input_file.kind = "missing"
                                  THEN "FileNotFoundError" ELSE "ParserError")
    /\ Fixed

\* The next export of lines 25-91 is done: .csv, .tsv, .xlsx, pipe, manual.
FCF_Exported(r) ==
    IF r.k = 5 THEN [r EXCEPT !.pc = "verify", !.k = 1] ELSE [r EXCEPT !.k = @ + 1]

\* lines 25-91, one of the five files; none of the writes is inside a try
\* (the try of lines 53-65 catches ImportError only)
FCF_Write ==
    /\ At("fix_csv_formatting", "export")
    /\ \E ok \in BOOLEAN :
         LET r == [run EXCEPT !.writes = @ + 1]
         IN  run' = IF ok THEN FCF_Exported(r) ELSE Escaped(r, "OSError")
    /\ Fixed

\* lines 53-65: to_excel raises ImportError, the handler prints, runs pip
\* and writes the file again
FCF_ExcelInstall ==
    /\ At("fix_csv_formatting", "export")
    /\ run.k = 3
    /\ \E installed \in BOOLEAN, ok \in BOOLEAN :
         LET r == Caught([run EXCEPT !.writes = @ + 1], "create_properly_formatted_csv:ImportError")
             w == [r EXCEPT !.writes = @ + 1]
         IN  run' = IF ~installed THEN Escaped(r, "CalledProcessError")
                    ELSE IF ok THEN FCF_Exported(w)
                    ELSE Escaped(w, "ImportError")
    /\ Fixed

\* lines 98-118, one of the four files_to_check: read back and shown inside
\* a try within the for loop
FCF_Verify ==
    /\ At("fix_csv_formatting", "verify")
    /\ \E readable \in BOOLEAN :
         LET r == [run EXCEPT !.reads = @ + 1, !.checks = @ + 1]
             c == IF readable /\ Has(run.df, {"Title", "Authors", "Year"})
                  THEN [r EXCEPT !.console = "Sample data"]
                  ELSE Caught(r, "create_properly_formatted_csv:files_to_check")
         IN  run' = IF run.k = 4
                    THEN [c EXCEPT !.pc = "structure", !.k = 1]
                    ELSE [c EXCEPT !.k = @ + 1]
    /\ Fixed

\* lines 120-137, then main's display_csv_structure, lines 139-179 (a try of
\* its own; the first row of an empty table raises), then lines 191-198
FCF_Structure ==
    /\ At("fix_csv_formatting", "structure")
    /\ \E readable \in BOOLEAN :
         LET r == [run EXCEPT !.reads = @ + 1]
             c == IF readable /\ run.df.nrows > 0
                  THEN [r EXCEPT !.console = "Raw file content"]
                  ELSE Caught(r, "display_csv_structure")
         IN  run' = [c EXCEPT !.pc = "done"]
    /\ Fixed

(* ---- scripts/verify_csv_formatting.py ---- *)

VCF_Columns ==
    {"Title", "Authors", "Year", "Journal_Conference", "Inclusion_Exclusion_decision"}

\* verify_csv_formatting, lines 19-73, one of the three files_to_check: the
\* try is inside the for loop
VCF_Check ==
    /\ At("verify_csv_formatting", "verify")
    /\ \E readable \in BOOLEAN :
         LET r == [run EXCEPT !.reads = @ + 1, !.checks = @ + 1]
             c == IF /\ readable
                     /\ input_file.kind = "table"
                     /\ Has(read_csv(input_file), VCF_Columns)
                     /\ input_file.nrows > 0
                  THEN [r EXCEPT !.df = read_csv(input_file),
                                 !.console = "File loaded successfully"]
                  ELSE Caught(r, "verify_csv_formatting")
         IN  run' = IF run.k = 3
                    THEN [c EXCEPT !.pc = "create", !.k = 1]
                    ELSE [c EXCEPT !.k = @ + 1]
    /\ Fixed

\* lines 75-82, then create_simple_test_csv, lines 84-119, which has no
\* try: the test file is written and read back; then lines 128-136
VCF_CreateTest ==
    /\ At("verify_csv_formatting", "create")
    /\ \E wrote \in BOOLEAN, readable \in BOOLEAN :
         LET w == [run EXCEPT !.writes = @ + 1]
             r == [w EXCEPT !.reads = @ + 1]
         IN  run' = IF ~wrote THEN Escaped(w, "OSError")
                    ELSE IF ~readable THEN Escaped(r, "OSError")
                    ELSE [r EXCEPT !.console = "SUMMARY", !.pc = "done"]
    /\ Fixed

(* ---- scripts/prisma_runner.py ---- *)

\* The prompt of line 234 returns one more choice.
PR_Prompt == At("prisma_runner", "menu") /\ run.inputs < MaxInputs

\* main, lines 236-248: the branch of the if/elif chain a choice takes
PR_Branch(choice) ==
    CASE choice = <<"1">> -> "methodology"
      [] choice = <<"2">> -> "custom"
      [] choice = <<"3">> -> "compare"
      [] choice = <<"4">> -> "report"
      [] choice = <<"5">> -> "exit"
      [] OTHER -> "invalid"

\* line 234: the choices, stripped, that take the branch
PR_Choices(branch) ==
    {choice \in {strip(line) : line \in MenuInputs} : PR_Branch(choice) = branch}

\* A menu option that writes n files, none inside a try: done of them
\* succeed; after the last the loop shows the menu again.
PR_Option(n, done, what) ==
    LET r == WriteFiles([run EXCEPT !.inputs = @ + 1], n, done)
    IN  IF done = n
        THEN [r EXCEPT !.options = @ + 1, !.console = what]
        ELSE r

\* run_methodology_implementation, lines 20-52: three files of
\* export_study_selection_data and the flowchart
PR_Methodology ==
    /\ PR_Prompt
    /\ \E choice \in PR_Choices("methodology"), done \in 0..4 :
         run' = [PR_Option(4, done, "Files generated") EXCEPT !.choice = choice]
    /\ Fixed

\* run_custom_simulation, lines 54-97: two files of export_results and the
\* flowchart
PR_Custom ==
    /\ PR_Prompt
    /\ \E choice \in PR_Choices("custom"), done \in 0..3 :
         run' = [PR_Option(3, done, "Custom simulation completed!") EXCEPT !.choice = choice]
    /\ Fixed

\* compare_configurations, lines 99-135: both of the above
PR_Compare ==
    /\ PR_Prompt
    /\ \E choice \in PR_Choices("compare"), done \in 0..7 :
         run' = [PR_Option(7, done, "COMPARISON RESULTS") EXCEPT !.choice = choice]
    /\ Fixed

\* generate_summary_report, lines 137-210: the report file
PR_Report ==
    /\ PR_Prompt
    /\ \E choice \in PR_Choices("report"), done \in 0..1 :
         run' = [PR_Option(1, done, "Summary report generated") EXCEPT !.choice = choice]
    /\ Fixed

\* main, lines 244-246: '5'
PR_Exit ==
    /\ At("prisma_runner", "menu")
    /\ \E choice \in PR_Choices("exit") :
         run' = [run EXCEPT !.choice = choice, !.inputs = @ + 1,
                            !.console = "Thank you for using the PRISMA simulation tool!",
                            !.pc = "done"]
    /\ Fixed

\* The else branch of main taken as the end of the loop.
PR_InvalidEnds ==
    /\ PR_Prompt
    /\ \E choice \in PR_Choices("invalid") :
         run' = [run EXCEPT !.choice = choice, !.inputs = @ + 1,
                            !.console = "Invalid choice. Please enter 1-5.",
                            !.pc = "done"]
    /\ Fixed

\* lines 247-248: anything else
PR_Invalid ==
    /\ PR_Prompt
    /\ \E choice \in PR_Choices("invalid") :
         run' = [run EXCEPT !.choice = choice, !.inputs = @ + 1,
                            !.console = "Invalid choice. Please enter 1-5."]
    /\ Fixed

\* line 234: input() at end of input raises EOFError, and main has no try
PR_InputClosed ==
    /\ At("prisma_runner", "menu")
    /\ run' = Escaped(run, "EOFError")
    /\ Fixed

(* ---- scripts/prisma_study_methodology.py, scripts/prisma_study_selection.py ---- *)

\* prisma_study_methodology.main, lines 543-585: three files of
\* export_study_selection_data and the flowchart, no try
PSM_Main ==
    /\ At("prisma_study_methodology", "start")
    /\ \E done \in 0..4 :
         run' = IF done = 4
                THEN [WriteFiles(run, 4, 4) EXCEPT
                        !.console = "PRISMA STUDY SELECTION COMPLETED", !.pc = "done"]
                ELSE WriteFiles(run, 4, done)
    /\ Fixed

\* prisma_study_selection.main, lines 455-484: two files of export_results
\* and the flowchart, no try
PSS_Main ==
    /\ At("prisma_study_selection", "start")
    /\ \E done \in 0..3 :
         run' = IF done = 3
                THEN [WriteFiles(run, 3, 3) EXCEPT
                        !.console = "Files generated", !.pc = "done"]
                ELSE WriteFiles(run, 3, done)
    /\ Fixed

NextScripts ==
    \/ RCD_Exists \/ RCD_Read \/ RCD_Display
    \/ DS_Load \/ DS_Summary
    \/ SCD_Read \/ SCD_Show \/ SCD_Export
    \/ ECV_Read \/ ECV_Overview \/ ECV_Details \/ ECV_Summary \/ ECV_Filter
    \/ ECV_Export \/ ECV_Custom \/ ECV_Exit \/ ECV_Invalid \/ ECV_InputClosed
    \/ FCF_Read \/ FCF_Write \/ FCF_ExcelInstall \/ FCF_Verify \/ FCF_Structure
    \/ VCF_Check \/ VCF_CreateTest
    \/ PR_Methodology \/ PR_Custom \/ PR_Compare \/ PR_Report
    \/ PR_Exit \/ PR_Invalid \/ PR_InputClosed
    \/ PSM_Main \/ PSS_Main

SpecScripts == InitScripts /\ [][NextScripts]_vars

-----------------------------------------------------------------------------
(* Claims about the script entry points.                                   *)

\* The entry points whose whole body is inside one try / except Exception.
GuardedScripts ==
    {"read_csv_display", "dataset_summary", "enhanced_csv_viewer", "simple_csv_display"}

\* The handlers that wrap the whole body of an entry point.
BodyHandlers == {"read_and_display_csv", "generate_dataset_summary", "main"}

\* C2 as stated: for each of the nine script entry points, any failure
\* raised while it runs is caught and printed, and no exception leaves the
\* script.
C2_NothingPropagates ==
    run.escaped = "none"

\* C2 (amended): in read_csv_display, dataset_summary, enhanced_csv_viewer
\* and simple_csv_display every failure raised while the entry point runs is
\* caught and printed and no exception leaves the script.
C2_GuardedScriptsCatchAll ==
    script \in GuardedScripts =>
        /\ run.escaped = "none"
        /\ Len(run.errors) = run.failures

\* simple_csv_display loaded the table, showed it, and the export failed.
C2_Witness ==
    /\ script = "simple_csv_display"
    /\ run.writes = 1
    /\ run.failures = 1
    /\ run.pc = "done"

WorkDone(r) == <<r.reads, r.writes, r.checks, r.options>>

\* C3 as stated: once a script has caught and printed a failure, no further
\* file is read, written or checked and no further menu option is served.
C3_NoWorkAfterPrintedError ==
    [][run.errors # <<>> => WorkDone(run') = WorkDone(run)]_vars

BodyFailurePrinted ==
    \E i \in 1..Len(run.errors) : run.errors[i] \in BodyHandlers

\* C3 (amended): once the handler that wraps the whole body of an entry
\* point (read_and_display_csv, generate_dataset_summary,
\* simple_csv_display.main, enhanced_csv_viewer.main) has caught and printed
\* a failure, no further file is read, written or checked and no further
\* menu option is served.
C3_NoWorkAfterBodyHandler ==
    [][BodyFailurePrinted => WorkDone(run') = WorkDone(run) /\ run'.pc = "done"]_vars

\* enhanced_csv_viewer served an option, then an option failed and main's
\* handler printed the failure.
C3_Witness ==
    /\ script = "enhanced_csv_viewer"
    /\ run.options >= 1
    /\ BodyFailurePrinted
    /\ run.pc = "done"

\* C4: for every input table that loads, the row and column counts printed
\* by read_and_display_csv and by simple_csv_display.main are the number of
\* data records and the number of header columns of the table.
C4_PrintedCountsMatchTable ==
    script \in {"read_csv_display", "simple_csv_display"} =>
        /\ run.out.printed =>
              /\ run.out.rows = input_file.nrows
              /\ run.out.cols = Len(input_file.header)
        /\ (run.df.loaded /\ run.pc \in {"export", "done"}) => run.out.printed

\* simple_csv_display printed the counts of a two-record table that has no
\* Year column, and then failed on the look-up.
C4_Witness ==
    /\ script = "simple_csv_display"
    /\ run.out.printed
    /\ run.out.rows = 2
    /\ run.out.cols = 9
    /\ run.failures = 1

\* A choice was read at the menu prompt of the script.
ChoiceRead(s) ==
    /\ script = s
    /\ run.pc = "menu"
    /\ run'.inputs = run.inputs + 1

\* C14: in the enhanced viewer the menu loop ends with 'Goodbye!' only when
\* the user enters '0'; an empty input is served as option 1; an
\* unrecognised input prints the invalid-choice message and the menu is
\* shown again; and after any of options 1-6 completes without error the
\* menu is shown again.
C14_ViewerMenuProtocol ==
    [][/\ (script = "enhanced_csv_viewer" /\ run'.console = "Goodbye!"
              /\ run.console # "Goodbye!")
          => (ChoiceRead("enhanced_csv_viewer") /\ run'.choice = <<"0">>)
       /\ ChoiceRead("enhanced_csv_viewer") =>
           LET choice == run'.choice
               options == {<<"1">>, <<"2">>, <<"3">>, <<"4">>, <<"5">>, <<"6">>}
           IN  /\ choice = <<"0">> => run'.console = "Goodbye!" /\ run'.pc = "done"
               /\ choice = <<>> =>
                     /\ run'.console = "QUICK OVERVIEW"
                     /\ run'.options = run.options + 1
                     /\ run'.pc = "menu"
               /\ choice \notin options \cup {<<>>, <<"0">>} =>
                     /\ run'.console = "Invalid choice. Please select 1-6 or 0."
                     /\ run'.options = run.options
                     /\ run'.pc = "menu"
               /\ (choice \in options /\ run'.failures = run.failures) =>
                     run'.pc = "menu"]_vars

\* The viewer served an option, and the user then left with '0'.
C14_Witness ==
    /\ script = "enhanced_csv_viewer"
    /\ run.options >= 1
    /\ run.inputs >= 3
    /\ run.choice = <<"0">>
    /\ run.console = "Goodbye!"
    /\ run.pc = "done"

\* C15 as stated: the loop of prisma_runner.main ends only when the user
\* enters '5'; each of the choices '1'-'4' runs its action exactly once and
\* then shows the menu again; any other input prints the invalid-choice
\* message, runs no action, writes no file, and shows the menu again.
C15_RunnerMenuProtocol ==
    [][(script = "prisma_runner" /\ run.pc = "menu" /\ run' # run) =>
           LET choice == run'.choice
               options == {<<"1">>, <<"2">>, <<"3">>, <<"4">>}
           IN  /\ run'.pc # "menu" =>
                     (ChoiceRead("prisma_runner") /\ choice = <<"5">>)
               /\ (ChoiceRead("prisma_runner") /\ choice \in options) =>
                     /\ run'.options = run.options + 1
                     /\ run'.pc = "menu"
               /\ (ChoiceRead("prisma_runner") /\ choice \notin options \cup {<<"5">>}) =>
                     /\ run'.console = "Invalid choice. Please enter 1-5."
                     /\ run'.options = run.options
                     /\ run'.writes = run.writes
                     /\ run'.pc = "menu"]_vars

\* C15 (amended): main returns only when the user enters '5'; otherwise the
\* loop ends only with an exception leaving main; each of the choices
\* '1'-'4' whose action raises nothing runs it exactly once and then shows
\* the menu again; any other input prints the invalid-choice message, runs
\* no action, writes no file, and shows the menu again.
C15_RunnerMenuProtocolUnlessRaised ==
    [][(script = "prisma_runner" /\ run.pc = "menu" /\ run' # run) =>
           LET choice == run'.choice
               options == {<<"1">>, <<"2">>, <<"3">>, <<"4">>}
           IN  /\ run'.pc = "done" =>
                     (ChoiceRead("prisma_runner") /\ choice = <<"5">>)
               /\ run'.pc \notin {"menu", "done"} =>
                     (run'.pc = "crashed" /\ run'.escaped # "none")
               /\ (ChoiceRead("prisma_runner") /\ choice = <<"5">>) =>
                     run'.pc = "done"
               /\ (ChoiceRead("prisma_runner") /\ choice \in options
                      /\ run'.escaped = "none") =>
                     /\ run'.options = run.options + 1
                     /\ run'.pc = "menu"
               /\ (ChoiceRead("prisma_runner") /\ choice \in options) =>
                     run'.options <= run.options + 1
               /\ (ChoiceRead("prisma_runner") /\ choice \notin options \cup {<<"5">>}) =>
                     /\ run'.console = "Invalid choice. Please enter 1-5."
                     /\ run'.options = run.options
                     /\ run'.writes = run.writes
                     /\ run'.pc = "menu"]_vars

\* The runner ran an option, answered an unrecognised input with the
\* message, and the user then left with '5'.
C15_Witness ==
    /\ script = "prisma_runner"
    /\ run.options >= 1
    /\ run.inputs > run.options + 1
    /\ run.choice = <<"5">>
    /\ run.pc = "done"

-----------------------------------------------------------------------------
(* The study selection simulation, scripts/prisma_study_selection.py.      *)
(*                                                                         *)
(* The source generates 462 studies of 15 random fields each.  The model   *)
(* keeps the code and scales the data: a study is one of the StudyValues,  *)
(* the dataset holds MaxRecords studies, and a table (DataFrame) is kept   *)
(* as the bag of its rows, table[v] being the number of rows equal to v:   *)
(* nothing the simulation reports tells rows with equal values apart.      *)
(* The target numbers and the exclusion counts of __init__ are scaled      *)
(* with the dataset and keep their order relations (ScaledTargets).        *)
(*                                                                         *)
(* random and np.random are module-level generators: rng holds, for each,  *)
(* the seed last set and the number of draws made since.  What a generator *)
(* returns is a function of its seed, its position and the request; the    *)
(* function is not known, so a first draw at a position picks any of the   *)
(* possible answers and records it in stream, and every later draw at the  *)
(* same seed, position and request gets the recorded answer.               *)

Simulators == {"first", "second"}

\* random_seed: the default of __init__ and of main, and the seed of
\* run_custom_simulation
Seeds == {42, 123}

\* One row of studies_df with the fields the screening reads (lines 83-110).
Study(year, language, publication_type) ==
    [year |-> year, journal |-> IF year = 2019 THEN "Cell" ELSE "Science",
     has_gnn |-> TRUE, has_rnn |-> FALSE, has_attention |-> TRUE,
     spatial_omics |-> TRUE, cardiac_focus |-> TRUE,
     full_text_available |-> TRUE, peer_reviewed |-> TRUE,
     language |-> language, publication_type |-> publication_type,
     methodology_detail |-> "sufficient", sample_size |-> 100,
     has_spatial_resolution |-> TRUE, has_empirical_data |-> TRUE]

\* The rows the generator can produce that the model distinguishes: a
\* research article of 2022, one of 2019 (randint(2019, 2025), line 88), a
\* letter, and an article that is not in English.
StudyValues ==
    {Study(2022, "English", "research_article"),
     Study(2019, "English", "research_article"),
     Study(2022, "English", "letter"),
     Study(2022, "Non-English", "research_article")}

RECURSIVE SumOver(_, _)
SumOver(table, values) ==
    IF values = {} THEN 0
    ELSE LET v == CHOOSE x \in values : TRUE
         IN  table[v] + SumOver(table, values \ {v})

\* len(df)
len(table) == SumOver(table, StudyValues)

\* The tables of n rows.
Frames(n) == {t \in [StudyValues -> 0..n] : len(t) = n}

\* df.sample(n): the possible results, n rows of df
sample(table, n) == {s \in Frames(n) : \A v \in StudyValues : s[v] <= table[v]}

\* df.drop(index)
drop(table, rows) == [v \in StudyValues |-> table[v] - rows[v]]

\* df[mask], the mask kept as the set of the values it lets through
where(table, mask) == [v \in StudyValues |-> IF v \in mask THEN table[v] ELSE 0]

\* dict.update
update(d, u) ==
    [key \in DOMAIN d \cup DOMAIN u |-> IF key \in DOMAIN u THEN u[key] ELSE d[key]]

\* The numbers of __init__, lines 51-54 (462, 60, 314, 88) and 57-66 (eight
\* reasons, 55 in all), scaled to a dataset of MaxRecords studies: the
\* reasons' counts sum to less than title_abstract_excluded, as 55 < 60.
ScaledTargets ==
    [initial_records |-> MaxRecords, title_abstract_excluded |-> 3,
     full_text_excluded |-> 0, final_included |-> 1]

title_abstract_exclusions ==
    <<[reason |-> "duplicate_methodologies", count |-> 1],
      [reason |-> "insufficient_deep_learning", count |-> 1]>>

\* prisma_config.CUSTOM_CONFIG_EXAMPLE, lines 242-258; target_numbers
\* (325, 45, 195, 85) scaled: fewer records than the default, and
\* title_abstract_excluded below the sum of the reasons' counts, as 45 < 55.
CUSTOM_CONFIG_EXAMPLE ==
    [inclusion_criteria |->
        [required_technologies |-> {"CNN", "RNN", "Transformer", "Graph Networks"},
         omics_types |-> {"spatial_transcriptomics", "spatial_proteomics"},
         application_focus |-> {"cancer_diagnosis", "tumor_heterogeneity", "metastasis"},
         date_range |-> [start_year |-> 2020, end_year |-> 2024]],
     target_numbers |->
        [initial_records |-> MaxRecords - 1, title_abstract_excluded |-> 1,
         full_text_excluded |-> 1, final_included |-> 1]]

\* The seeding with line 28 left out: np.random keeps its state.
seed_random_only(generators, random_seed) ==
    [generators EXCEPT !.random = [seed |-> random_seed, pos |-> 0]]

\* random.seed(random_seed); np.random.seed(random_seed), lines 27-28
seed_generators(generators, random_seed) ==
    [random |-> [seed |-> random_seed, pos |-> 0],
     np_random |-> [seed |-> random_seed, pos |-> 0]]

\* The generators as the interpreter starts them: seeded by the system.
SystemSeeded ==
    [random |-> [seed |-> 0, pos |-> 0], np_random |-> [seed |-> 0, pos |-> 0]]

\* One draw from a generator: the answers it can give and the world after
\* each.  A world is <<the simulator, the generators, the stream>>.
Draw(w, gen, ask, options) ==
    LET at == w.rng[gen]
        known == {e \in w.stream : /\ e.gen = gen /\ e.seed = at.seed
                                   /\ e.pos = at.pos /\ e.ask = ask}
        answers == IF known = {} THEN options ELSE {e.answer : e \in known}
    IN  {[answer |-> a,
          world |-> [w EXCEPT !.rng[gen].pos = @ + 1,
                              !.stream = @ \cup {[gen |-> gen, seed |-> at.seed,
                                                  pos |-> at.pos, ask |-> ask,
                                                  answer |-> a]}]] : a \in answers}

\* _generate_synthetic_studies, lines 71-113: initial_records rows drawn
\* from random; is_high_quality changes the weights of the values of a row,
\* not which values it can take.
generate_synthetic_studies(w) ==
    {[d.world EXCEPT !.sim.studies_df = d.answer.table] :
        d \in Draw(w, "random", [op |-> "studies", n |-> w.sim.initial_records],
                   {[table |-> t] : t \in Frames(w.sim.initial_records)})}

NoSimulator == [phase |-> "none"]

\* __init__, lines 20-69
init(w, random_seed) ==
    generate_synthetic_studies(
        [w EXCEPT
           !.rng = seed_generators(w.rng, random_seed),
           !.sim = [phase |-> "built",
                    random_seed |-> random_seed,
                    inclusion_criteria |->
                        [technologies |-> {"GNN", "RNN", "Attention", "Transformer"},
                         omics_types |-> {"spatial_transcriptomics", "spatial_epigenomics",
                                          "spatial_multi_omics"},
                         application_focus |-> {"cardiomyocyte_differentiation",
                                                "cardiac_regeneration"},
                         publication_type |-> "peer_reviewed",
                         language |-> "English",
                         date_range |-> [start_year |-> 2019, end_year |-> 2025],
                         full_text_available |-> TRUE],
                    initial_records |-> ScaledTargets.initial_records,
                    title_abstract_excluded |-> ScaledTargets.title_abstract_excluded,
                    full_text_excluded |-> ScaledTargets.full_text_excluded,
                    final_included |-> ScaledTargets.final_included,
                    title_abstract_exclusions |-> title_abstract_exclusions,
                    studies_df |-> [v \in StudyValues |-> 0]]])

\* The mask of apply_inclusion_criteria, lines 118-141; the years are the
\* literals of line 131, not self.inclusion_criteria["date_range"].
inclusion_mask(study) ==
    /\ (study.has_gnn \/ study.has_rnn \/ study.has_attention)
    /\ study.spatial_omics
    /\ study.cardiac_focus
    /\ study.peer_reviewed
    /\ study.language = "English"
    /\ (2019 <= study.year /\ study.year <= 2025)
    /\ study.full_text_available

\* apply_inclusion_criteria, lines 115-143
apply_inclusion_criteria(df) == where(df, {v \in StudyValues : inclusion_mask(v)})

\* The if / elif chain of apply_exclusion_criteria, lines 155-168.
exclude_reason(study) ==
    CASE study.publication_type \in {"conference_abstract", "letter", "editorial"}
            -> "conference_abstracts_letters_editorials"
      [] ~study.has_spatial_resolution -> "bulk_transcriptomics_only"
      [] ~(study.has_gnn \/ study.has_rnn \/ study.has_attention)
            -> "insufficient_deep_learning"
      [] ~study.cardiac_focus -> "non_cardiac_tissue"
      [] study.methodology_detail = "insufficient" -> "insufficient_methodology"
      [] ~study.has_empirical_data -> "theoretical_only"
      [] study.sample_size < 50 -> "small_sample_sizes"
      [] OTHER -> "None"

not_excluded(study) == exclude_reason(study) = "None"

\* A dict of counts, kept as the set of its items: the rows of df counted
\* by key, a function of the row's values.
CountBy(df, key) ==
    {[key |-> k, count |-> len(where(df, {v \in StudyValues : key[v] = k}))] :
        k \in {key[v] : v \in {x \in StudyValues : df[x] > 0}}}

\* apply_exclusion_criteria, lines 145-179
apply_exclusion_criteria(df) ==
    [included |-> where(df, {v \in StudyValues : not_excluded(v)}),
     exclusion_reasons |->
        CountBy(where(df, {v \in StudyValues : ~not_excluded(v)}),
                [v \in StudyValues |-> exclude_reason(v)])]

\* The for loop of title_abstract_screening, lines 197-202, from the k-th
\* reason on: the possible <<world, remaining_studies, exclusion_counts>>.
RECURSIVE exclude_by_reason(_, _, _, _)
exclude_by_reason(w, k, remaining_studies, exclusion_counts) ==
    IF k > Len(w.sim.title_abstract_exclusions)
    THEN {[world |-> w, remaining |-> remaining_studies, counts |-> exclusion_counts]}
    ELSE LET item == w.sim.title_abstract_exclusions[k]
         IN  IF len(remaining_studies) >= item.count
             THEN UNION {exclude_by_reason(d.world, k + 1,
                                           drop(remaining_studies, d.answer.table),
                                           Append(exclusion_counts, item)) :
                            d \in Draw(w, "np_random",
                                       [op |-> "sample", df |-> remaining_studies,
                                        n |-> item.count],
                                       {[table |-> s] :
                                           s \in sample(remaining_studies, item.count)})}
             ELSE exclude_by_reason(w, k + 1, remaining_studies, exclusion_counts)

\* title_abstract_screening, lines 181-214: after_title_abstract is the
\* eligible table less the sampled rows, which is what remains.
title_abstract_screening(w) ==
    exclude_by_reason(w, 1, apply_inclusion_criteria(w.sim.studies_df), <<>>)

\* full_text_screening, lines 216-249
full_text_screening(w, df) ==
    LET screened == apply_exclusion_criteria(df)
        target_final == w.sim.final_included
        current_included == len(screened.included)
        additional_to_exclude == current_included - target_final
    IN  IF current_included > target_final
        THEN {[world |-> d.world,
               included |-> drop(screened.included, d.answer.table),
               exclusion_reasons |->
                   screened.exclusion_reasons \cup
                   {[key |-> "methodological_overlap", count |-> additional_to_exclude]}] :
                d \in Draw(w, "np_random",
                           [op |-> "sample", df |-> screened.included,
                            n |-> additional_to_exclude],
                           {[table |-> s] :
                               s \in sample(screened.included, additional_to_exclude)})}
        ELSE {[world |-> w, included |-> screened.included,
               exclusion_reasons |-> screened.exclusion_reasons]}

\* calculate_inter_rater_agreement, lines 251-255: round(uniform(0.75, 0.95), 3),
\* in thousandths; two of the values it can take.
calculate_inter_rater_agreement(w) ==
    Draw(w, "random", [op |-> "uniform"], {[value |-> 800], [value |-> 850]})

\* The sample sizes of a table in ascending order.
RECURSIVE sorted_sizes(_)
sorted_sizes(df) ==
    IF len(df) = 0 THEN <<>>
    ELSE LET v == CHOOSE x \in StudyValues :
                    /\ df[x] > 0
                    /\ \A y \in StudyValues : df[y] > 0 => x.sample_size <= y.sample_size
         IN  <<v.sample_size>> \o sorted_sizes([df EXCEPT ![v] = @ - 1])

\* Twice the median of a sorted sequence.
median2(sizes) ==
    LET n == Len(sizes)
    IN  IF n % 2 = 1 THEN 2 * sizes[(n + 1) \div 2]
        ELSE sizes[n \div 2] + sizes[n \div 2 + 1]

RECURSIVE SumSeq(_)
SumSeq(s) == IF s = <<>> THEN 0 ELSE Head(s) + SumSeq(Tail(s))

\* _analyze_included_studies, lines 313-345; the mean in hundredths.  The
\* StudyValues name fewer than five journals, so head(5) keeps them all.
analyze_included_studies(df) ==
    IF len(df) = 0 THEN [empty |-> TRUE]
    ELSE LET sizes == sorted_sizes(df)
         IN  [total_studies |-> len(df),
              year_distribution |-> CountBy(df, [v \in StudyValues |-> v.year]),
              journal_distribution |-> CountBy(df, [v \in StudyValues |-> v.journal]),
              methodology_distribution |->
                 [gnn_studies |-> len(where(df, {v \in StudyValues : v.has_gnn})),
                  rnn_studies |-> len(where(df, {v \in StudyValues : v.has_rnn})),
                  attention_studies |-> len(where(df, {v \in StudyValues : v.has_attention})),
                  spatial_omics_studies |-> len(where(df, {v \in StudyValues : v.spatial_omics}))],
              sample_size_stats |->
                 [mean |-> (200 * SumSeq(sizes) + Len(sizes)) \div (2 * Len(sizes)),
                  median2 |-> median2(sizes),
                  min |-> sizes[1],
                  max |-> sizes[Len(sizes)]]]

RECURSIVE SumCounts(_)
SumCounts(items) == IF items = <<>> THEN 0 ELSE Head(items).count + SumCounts(Tail(items))

\* The prisma_data dict of generate_prisma_flow_data, lines 273-306.
prisma_data(sim, after_title_abstract, title_exclusions, final_included, fulltext_exclusions, kappa) ==
    [identification |-> [initial_records |-> sim.initial_records],
     screening |->
        [title_abstract_screening |->
            [eligible_for_screening |->
                len(after_title_abstract) + SumCounts(title_exclusions),
             excluded |-> SumCounts(title_exclusions),
             exclusion_reasons |-> title_exclusions,
             remaining |-> len(after_title_abstract)],
         inter_rater_agreement |->
            [cohens_kappa |-> kappa,
             interpretation |-> IF kappa > 800 THEN "Substantial agreement"
                                ELSE "Moderate agreement"]],
     eligibility |->
        [full_text_assessment |->
            [assessed |-> len(after_title_abstract),
             excluded |-> len(after_title_abstract) - len(final_included),
             exclusion_reasons |-> fulltext_exclusions,
             included |-> len(final_included)]],
     inclusion |->
        [final_synthesis |-> len(final_included),
         study_characteristics |-> analyze_included_studies(final_included)]]

\* generate_prisma_flow_data, lines 257-311: the worlds it can leave, the
\* returned dict in sim.flow.
generate_prisma_flow_data(w) ==
    UNION {UNION {{[k.world EXCEPT
                      !.sim = update(@, [phase |-> "ran",
                                         flow |-> prisma_data(w.sim, ta.remaining, ta.counts,
                                                              ft.included,
                                                              ft.exclusion_reasons,
                                                              k.answer.value)])] :
                      k \in calculate_inter_rater_agreement(ft.world)} :
                  ft \in full_text_screening(ta.world, ta.remaining)} :
              ta \in title_abstract_screening(w)}

\* run_custom_simulation, lines 63-73: the target numbers and the inclusion
\* criteria are overridden and the studies generated again.
override_with_custom(w) ==
    generate_synthetic_studies(
        [w EXCEPT
           !.sim.initial_records = CUSTOM_CONFIG_EXAMPLE.target_numbers.initial_records,
           !.sim.title_abstract_excluded =
               CUSTOM_CONFIG_EXAMPLE.target_numbers.title_abstract_excluded,
           !.sim.full_text_excluded = CUSTOM_CONFIG_EXAMPLE.target_numbers.full_text_excluded,
           !.sim.final_included = CUSTOM_CONFIG_EXAMPLE.target_numbers.final_included,
           !.sim.inclusion_criteria = update(@, CUSTOM_CONFIG_EXAMPLE.inclusion_criteria)])

\* The world of simulator i.
World(i) == [sim |-> sims[i], rng |-> rng, stream |-> stream]

\* The world w becomes the state, its simulator stored as i together with
\* what this simulator saw of the generators: their state when __init__
\* returned (left) and when generate_prisma_flow_data began (found).
Install(i, w, seen) ==
    /\ sims' = [sims EXCEPT ![i] = update(w.sim, seen)]
    /\ rng' = w.rng
    /\ stream' = w.stream
    /\ UNCHANGED <<kappaVars, scriptVars, formatter, methodology>>

InitSim ==
    /\ sims = [i \in Simulators |-> NoSimulator]
    /\ rng = SystemSeeded
    /\ stream = {}
    /\ formatter = <<>>
    /\ methodology = <<>>
    /\ confusion_matrix = None
    /\ kappa_out = NotCalled
    /\ script = "none"
    /\ input_file = [kind |-> "none"]
    /\ run = [pc |-> "idle"]

\* prisma_study_selection.main, lines 460-464: the simulator of seed 42 and
\* its flow data
DefaultSimulation ==
    /\ sims["first"].phase = "none"
    /\ \E a \in init(World("first"), 42) :
         \E b \in generate_prisma_flow_data(a) :
            Install("first", b, [left |-> a.rng, found |-> a.rng])

\* prisma_runner.run_custom_simulation, lines 60-76
run_custom_simulation ==
    /\ sims["first"].phase = "none"
    /\ \E a \in init(World("first"), 123) :
         \E b \in override_with_custom(a) :
            \E c \in generate_prisma_flow_data(b) :
               Install("first", c, [left |-> a.rng, found |-> b.rng])

NextSim == DefaultSimulation \/ run_custom_simulation

SpecSim == InitSim /\ [][NextSim]_vars

\* A caller constructs a simulator: PRISMAStudySelection(random_seed).  The
\* callers of this specification give all their simulators the same seed.
Construct(i, random_seed) ==
    /\ sims[i].phase = "none"
    /\ \A j \in Simulators : sims[j].phase # "none" => sims[j].random_seed = random_seed
    /\ \E a \in init(World(i), random_seed) :
         Install(i, a, [left |-> a.rng])

\* The caller runs it once: generate_prisma_flow_data().
GenerateFlow(i) ==
    /\ sims[i].phase = "built"
    /\ \E b \in generate_prisma_flow_data(World(i)) :
         Install(i, b, [found |-> rng])

NextSeed ==
    \/ \E i \in Simulators, random_seed \in Seeds : Construct(i, random_seed)
    \/ \E i \in Simulators : GenerateFlow(i)

SpecSeed == InitSim /\ [][NextSeed]_vars

-----------------------------------------------------------------------------
(* Claims about the simulation.                                            *)

Ran(i) == sims[i].phase = "ran"

\* Simulator i had its inclusion criteria updated from CUSTOM_CONFIG_EXAMPLE
\* and has produced its flow data.
CustomRan(i) == Ran(i) /\ "required_technologies" \in DOMAIN sims[i].inclusion_criteria

\* C7: for every generated dataset and every sampling outcome, the number
\* of studies full_text_screening returns, reported as
\* inclusion.final_synthesis, equals final_included.
C7_FinalSynthesisIsFinalIncluded ==
    \A i \in Simulators :
        Ran(i) => sims[i].flow.inclusion.final_synthesis = sims[i].final_included

\* C8: the title/abstract 'excluded' count reported by
\* generate_prisma_flow_data equals title_abstract_excluded, for every
\* generated dataset, in the default run and in the custom run.
C8_ExcludedIsTitleAbstractExcluded ==
    \A i \in Simulators :
        Ran(i) => sims[i].flow.screening.title_abstract_screening.excluded
                    = sims[i].title_abstract_excluded

\* The simulator found the generators as its __init__ left them: nothing
\* drew a random number between its construction and its use.
Undisturbed(i) == sims[i].found = sims[i].left

\* C9: two simulators constructed with the same random_seed, with nothing
\* else drawing random numbers between construction and use, and each run
\* once through generate_prisma_flow_data, return identical flow data.
C9_SameSeedSameFlow ==
    \A i, j \in Simulators :
        (/\ Ran(i) /\ Ran(j)
         /\ sims[i].random_seed = sims[j].random_seed
         /\ Undisturbed(i) /\ Undisturbed(j))
        => sims[i].flow = sims[j].flow

\* Both simulators ran undisturbed from the same seed, on a dataset where
\* each sampling step had a choice: two studies were sampled out at the
\* title/abstract phase, one more at full text, and one was included.
C9_Witness ==
    /\ Ran("first") /\ Ran("second")
    /\ sims["first"].random_seed = sims["second"].random_seed
    /\ Undisturbed("first") /\ Undisturbed("second")
    /\ sims["first"].studies_df[Study(2022, "English", "research_article")] = 2
    /\ sims["first"].studies_df[Study(2019, "English", "research_article")] = 2
    /\ sims["second"].flow.screening.title_abstract_screening.excluded = 2
    /\ sims["second"].flow.inclusion.final_synthesis = 1

\* The years of the studies in the final included set of simulator i.
IncludedYears(i) ==
    LET c == sims[i].flow.inclusion.study_characteristics
    IN  IF "year_distribution" \in DOMAIN c
        THEN {item.key : item \in c.year_distribution}
        ELSE {}

\* C10: in run_custom_simulation, after the inclusion criteria are updated
\* from CUSTOM_CONFIG_EXAMPLE, every study of the final included set has a
\* publication year inside the custom date_range, 2020..2024.
C10_CustomDateRangeGoverns ==
    \A i \in Simulators :
        CustomRan(i) =>
            \A year \in IncludedYears(i) :
                /\ sims[i].inclusion_criteria.date_range.start_year <= year
                /\ year <= sims[i].inclusion_criteria.date_range.end_year

\* C17: _generate_synthetic_studies ensures enough qualifying studies to
\* reach the target final count: in every dataset it generates, for every
\* random outcome, at least final_included studies satisfy
\* apply_inclusion_criteria.
C17_EnoughQualifyingStudies ==
    \A i \in Simulators :
        sims[i] # NoSimulator =>
            len(apply_inclusion_criteria(sims[i].studies_df)) >= sims[i].final_included

-----------------------------------------------------------------------------
(* The exports of scripts/fix_csv_formatting.py as text.                   *)
(*                                                                         *)
(* A text is a sequence of characters.  The table comes from pd.read_csv,  *)
(* so a cell is a text or NaN (an empty field).  to_csv and csv.writer     *)
(* are csv.writer of the standard library; read_csv is the tokenizer of    *)
(* pandas' C parser with its defaults (quotechar '"', doublequote, blank   *)
(* lines skipped, '\n', '\r' and '\r\n' all ending a line outside quotes). *)

QUOTE == "\""

TAB == "\t"

LF == "\n"

CR == "\r"

BOM == "BOM"

\* The missing value; as a sequence of one mark that is no character, so
\* that it compares with texts.
NaN == <<"NaN">>

\* The cells tried: an empty one, a plain one, and one around each
\* character that means something in one of the files.
CellValues ==
    {NaN, <<"a">>} \cup {<<"a", c, "b">> : c \in {",", TAB, "|", QUOTE, LF, CR}}

\* The header rows tried: one or two column names, one of them holding
\* separators and a quote.
ColumnHeaders ==
    {<< <<"t">> >>, << <<"t">>, <<"y">> >>, << <<"t", ",", "|">>, <<"y", TAB, QUOTE>> >>}

\* The tables pd.read_csv can have produced (line 18).
Tables(max_rows) ==
    UNION {{[columns |-> h, rows |-> r] : r \in [1..n -> [1..Len(h) -> CellValues]]} :
              h \in ColumnHeaders, n \in 0..max_rows}

\* csv.writer doubles the quotes of a field it quotes.
RECURSIVE double_quotes(_)
double_quotes(field) ==
    IF field = <<>> THEN <<>>
    ELSE (IF Head(field) = QUOTE THEN <<QUOTE, QUOTE>> ELSE <<Head(field)>>)
         \o double_quotes(Tail(field))

\* QUOTE_MINIMAL: a field is quoted when it holds the delimiter, the quote
\* character or a character of the line terminator; CPython from 3.13 on
\* also quotes every '\r' and '\n' (quotes_line_breaks), CPython up to 3.12
\* does not.
needs_quotes(field, sep, lineterminator, quotes_line_breaks) ==
    \E i \in 1..Len(field) :
        field[i] \in {sep, QUOTE} \cup Range(lineterminator)
                     \cup (IF quotes_line_breaks THEN {LF, CR} ELSE {})

write_field(field, sep, lineterminator, quotes_line_breaks) ==
    IF needs_quotes(field, sep, lineterminator, quotes_line_breaks)
    THEN <<QUOTE>> \o double_quotes(field) \o <<QUOTE>>
    ELSE field

RECURSIVE join_fields(_, _, _, _)
join_fields(row, sep, lineterminator, quotes_line_breaks) ==
    IF Len(row) = 0 THEN <<>>
    ELSE write_field(row[1], sep, lineterminator, quotes_line_breaks)
         \o (IF Len(row) = 1 THEN <<>>
             ELSE <<sep>> \o join_fields(Tail(row), sep, lineterminator, quotes_line_breaks))

\* csv.writer.writerow: a row of one empty field is written as "".
writerow(row, sep, lineterminator, quotes_line_breaks) ==
    (IF Len(row) = 1 /\ row[1] = <<>>
     THEN <<QUOTE, QUOTE>>
     ELSE join_fields(row, sep, lineterminator, quotes_line_breaks))
    \o lineterminator

RECURSIVE writerows(_, _, _, _)
writerows(rows, sep, lineterminator, quotes_line_breaks) ==
    IF rows = <<>> THEN <<>>
    ELSE writerow(Head(rows), sep, lineterminator, quotes_line_breaks)
         \o writerows(Tail(rows), sep, lineterminator, quotes_line_breaks)

\* The cells of a row as the writer gets them: na_rep for NaN.
as_text(row, na_rep) == [j \in 1..Len(row) |-> IF row[j] = NaN THEN na_rep ELSE row[j]]

\* df.to_csv(index=False, encoding='utf-8-sig', sep=sep, quoting=QUOTE_MINIMAL,
\* lineterminator='\n'), lines 28-36, 41-48 and 69-76: NaN is written empty.
to_csv(df, sep, quotes_line_breaks) ==
    <<BOM>> \o writerows(<<df.columns>> \o [i \in 1..Len(df.rows) |-> as_text(df.rows[i], <<>>)],
                         sep, <<LF>>, quotes_line_breaks)

\* Lines 82-91: csv.writer with its default line terminator '\r\n' on a file
\* opened with newline=''; row.tolist() hands NaN over as a float, written nan.
manual_csv(df, quotes_line_breaks) ==
    <<BOM>> \o writerows(<<df.columns>>
                           \o [i \in 1..Len(df.rows) |-> as_text(df.rows[i], <<"n", "a", "n">>)],
                         ",", <<CR, LF>>, quotes_line_breaks)

\* The tokenizer of read_csv from character i on: state, the field and the
\* line being read, and the lines read so far.
RECURSIVE tokenize(_, _, _, _, _, _, _)
tokenize(text, sep, i, state, field, line, lines) ==
    IF i > Len(text)
    THEN IF state \in {"START_RECORD", "EAT_CRNL"} THEN lines
         ELSE Append(lines, Append(line, field))
    ELSE LET c == text[i]
             end_line == Append(lines, Append(line, field))
         IN  CASE state = "EAT_CRNL" ->
                    IF c = LF THEN tokenize(text, sep, i + 1, "START_RECORD", <<>>, <<>>, lines)
                    ELSE tokenize(text, sep, i, "START_RECORD", <<>>, <<>>, lines)
               [] state = "START_RECORD" ->
                    IF c = LF THEN tokenize(text, sep, i + 1, "START_RECORD", <<>>, <<>>, lines)
                    ELSE IF c = CR THEN tokenize(text, sep, i + 1, "EAT_CRNL", <<>>, <<>>, lines)
                    ELSE tokenize(text, sep, i, "START_FIELD", <<>>, <<>>, lines)
               [] state = "START_FIELD" ->
                    IF c = LF THEN tokenize(text, sep, i + 1, "START_RECORD", <<>>, <<>>, end_line)
                    ELSE IF c = CR THEN tokenize(text, sep, i + 1, "EAT_CRNL", <<>>, <<>>, end_line)
                    ELSE IF c = QUOTE THEN tokenize(text, sep, i + 1, "IN_QUOTED_FIELD", field, line, lines)
                    ELSE IF c = sep THEN tokenize(text, sep, i + 1, "START_FIELD", <<>>, Append(line, field), lines)
                    ELSE tokenize(text, sep, i + 1, "IN_FIELD", Append(field, c), line, lines)
               [] state = "IN_FIELD" ->
                    IF c = LF THEN tokenize(text, sep, i + 1, "START_RECORD", <<>>, <<>>, end_line)
                    ELSE IF c = CR THEN tokenize(text, sep, i + 1, "EAT_CRNL", <<>>, <<>>, end_line)
                    ELSE IF c = sep THEN tokenize(text, sep, i + 1, "START_FIELD", <<>>, Append(line, field), lines)
                    ELSE tokenize(text, sep, i + 1, "IN_FIELD", Append(field, c), line, lines)
               [] state = "IN_QUOTED_FIELD" ->
                    IF c = QUOTE THEN tokenize(text, sep, i + 1, "QUOTE_IN_QUOTED_FIELD", field, line, lines)
                    ELSE tokenize(text, sep, i + 1, "IN_QUOTED_FIELD", Append(field, c), line, lines)
               [] OTHER ->
                    IF c = QUOTE THEN tokenize(text, sep, i + 1, "IN_QUOTED_FIELD", Append(field, c), line, lines)
                    ELSE IF c = LF THEN tokenize(text, sep, i + 1, "START_RECORD", <<>>, <<>>, end_line)
                    ELSE IF c = CR THEN tokenize(text, sep, i + 1, "EAT_CRNL", <<>>, <<>>, end_line)
                    ELSE IF c = sep THEN tokenize(text, sep, i + 1, "START_FIELD", <<>>, Append(line, field), lines)
                    ELSE tokenize(text, sep, i + 1, "IN_FIELD", Append(field, c), line, lines)

\* A field as a cell: the empty field and nan are among the default na_values.
as_cell(field) == IF field \in {<<>>, <<"n", "a", "n">>} THEN NaN ELSE field

\* A line of fewer fields than the header is filled up with NaN.
as_row(line, width) == [j \in 1..width |-> IF j <= Len(line) THEN as_cell(line[j]) ELSE NaN]

\* pd.read_csv(file_name, sep=sep, encoding='utf-8-sig'), lines 106-111:
\* the first line names the columns; a line of more fields than the header
\* is a ParserError.
pd_read_csv(text, sep) ==
    LET decoded == IF text # <<>> /\ Head(text) = BOM THEN Tail(text) ELSE text
        lines == tokenize(decoded, sep, 1, "START_RECORD", <<>>, <<>>, <<>>)
    IN  IF lines = <<>> THEN [raised |-> "EmptyDataError"]
        ELSE IF \E k \in 2..Len(lines) : Len(lines[k]) > Len(lines[1])
        THEN [raised |-> "ParserError"]
        ELSE [raised |-> "none",
              columns |-> lines[1],
              rows |-> [k \in 1..(Len(lines) - 1) |-> as_row(lines[k + 1], Len(lines[1]))]]

\* files_to_check, line 103, with the separator each is read back with
\* (lines 106-111).
files_to_check ==
    <<[name |-> "properly_formatted_publications.csv", sep |-> ","],
      [name |-> "properly_formatted_publications.tsv", sep |-> TAB],
      [name |-> "properly_formatted_publications_pipe.csv", sep |-> "|"],
      [name |-> "manually_formatted_publications.csv", sep |-> ","]>>

InitExport ==
    /\ formatter \in {[pc |-> "export", df |-> t, quotes_line_breaks |-> q,
                       files |-> <<>>, test_df |-> <<>>] : t \in Tables(MaxRows), q \in BOOLEAN}
    /\ confusion_matrix = None
    /\ kappa_out = NotCalled
    /\ script = "none"
    /\ input_file = [kind |-> "none"]
    /\ run = [pc |-> "idle"]
    /\ sims = <<>>
    /\ rng = <<>>
    /\ stream = {}
    /\ methodology = <<>>

\* create_properly_formatted_csv, lines 25-91: the delimited files, in the
\* order of files_to_check
FMT_Export ==
    /\ formatter.pc = "export"
    /\ LET df == formatter.df
           q == formatter.quotes_line_breaks
       IN  formatter' = [formatter EXCEPT
                           !.files = <<to_csv(df, ",", q), to_csv(df, TAB, q),
                                       to_csv(df, "|", q), manual_csv(df, q)>>,
                           !.pc = "verify"]
    /\ UNCHANGED <<kappaVars, scriptVars, simVars, methodology>>

\* lines 105-118, once round the loop: the next file is read back
FMT_Verify ==
    /\ formatter.pc = "verify"
    /\ LET k == Len(formatter.test_df) + 1
       IN  formatter' = [formatter EXCEPT
                           !.test_df = Append(@, pd_read_csv(formatter.files[k],
                                                             files_to_check[k].sep)),
                           !.pc = IF k = Len(files_to_check) THEN "done" ELSE "verify"]
    /\ UNCHANGED <<kappaVars, scriptVars, simVars, methodology>>

NextExport == FMT_Export \/ FMT_Verify

SpecExport == InitExport /\ [][NextExport]_vars

\* C11: each delimited file written by create_properly_formatted_csv, read
\* back with its own separator, yields a table with the same number of
\* rows, the same number of columns and the same column names as the source
\* table, also when cells hold the separator, a double quote or a line break.
C11_ExportRoundTrip ==
    \A k \in 1..Len(formatter.test_df) :
        LET test_df == formatter.test_df[k]
        IN  /\ test_df.raised = "none"
            /\ Len(test_df.rows) = Len(formatter.df.rows)
            /\ Len(test_df.columns) = Len(formatter.df.columns)
            /\ test_df.columns = formatter.df.columns

-----------------------------------------------------------------------------
(* The methodology implementation, scripts/prisma_study_methodology.py,    *)
(* and the configuration prisma_runner reads from prisma_config.py.        *)
(* A dict of counts is the sequence of its items in the order written.     *)

\* The object the constructor with other_reasons left out would build: the
\* reasons as prisma_study_selection.py lists them.
PRISMAMethodologyWithoutOther ==
    [initial_records |-> 462, title_abstract_excluded |-> 60,
     full_text_excluded |-> 314, final_included |-> 88,
     after_title_abstract |-> 462 - 60, full_text_assessed |-> 462 - 60,
     title_abstract_exclusions |->
        <<[reason |-> "duplicate_methodologies", count |-> 10],
          [reason |-> "insufficient_deep_learning", count |-> 10],
          [reason |-> "preliminary_results", count |-> 8],
          [reason |-> "no_spatial_resolution", count |-> 7],
          [reason |-> "non_cardiac_focus", count |-> 6],
          [reason |-> "insufficient_methodology", count |-> 6],
          [reason |-> "small_sample_sizes", count |-> 4],
          [reason |-> "theoretical_only", count |-> 4]>>,
     full_text_exclusions |->
        <<[reason |-> "not_cardiomyocyte_focused", count |-> 95],
          [reason |-> "methodological_overlap_redundancy", count |-> 85],
          [reason |-> "insufficient_reproducibility", count |-> 60],
          [reason |-> "bulk_transcriptomics_only", count |-> 45],
          [reason |-> "no_spatial_integration", count |-> 29]>>]

\* PRISMAStudySelection.__init__, lines 16-57: the object after construction
\* (prisma_runner imports the class as PRISMAMethodology).
PRISMAMethodology ==
    LET initial_records == 462
        title_abstract_excluded == 60
        after_title_abstract == initial_records - title_abstract_excluded
    IN  [initial_records |-> initial_records,
         title_abstract_excluded |-> title_abstract_excluded,
         full_text_excluded |-> 314,
         final_included |-> 88,
         after_title_abstract |-> after_title_abstract,
         full_text_assessed |-> after_title_abstract,
         title_abstract_exclusions |->
            <<[reason |-> "duplicate_methodologies", count |-> 10],
              [reason |-> "insufficient_deep_learning", count |-> 10],
              [reason |-> "preliminary_results", count |-> 8],
              [reason |-> "no_spatial_resolution", count |-> 7],
              [reason |-> "non_cardiac_focus", count |-> 6],
              [reason |-> "insufficient_methodology", count |-> 6],
              [reason |-> "small_sample_sizes", count |-> 4],
              [reason |-> "theoretical_only", count |-> 4],
              [reason |-> "other_reasons", count |-> 5]>>,
         full_text_exclusions |->
            <<[reason |-> "not_cardiomyocyte_focused", count |-> 95],
              [reason |-> "methodological_overlap_redundancy", count |-> 85],
              [reason |-> "insufficient_reproducibility", count |-> 60],
              [reason |-> "bulk_transcriptomics_only", count |-> 45],
              [reason |-> "no_spatial_integration", count |-> 29]>>]

\* round(100 * num / den, 1), in tenths
percent1(num, den) == (2000 * num + den) \div (2 * den)

\* generate_inter_rater_statistics, lines 133-167: the kappa of the default
\* matrix and the agreement rates of the matrix of lines 140-145
generate_inter_rater_statistics ==
    LET k == calculate_cohens_kappa(None)
        cm == [include_include |-> 75, include_exclude |-> 8,
               exclude_include |-> 9, exclude_exclude |-> 370]
        total == cm.include_include + cm.include_exclude
                 + cm.exclude_include + cm.exclude_exclude
    IN  [cohens_kappa |-> k.kappa_value,
         interpretation |-> k.interpretation,
         percent_agreement |-> percent1(cm.include_include + cm.exclude_exclude, total),
         disagreement_rate |-> percent1(cm.include_exclude + cm.exclude_include, total),
         total_assessed |-> total,
         confusion_matrix |-> cm]

\* generate_prisma_flow, lines 169-316: the counts of the returned dict
generate_prisma_flow(self) ==
    LET inter_rater_stats == generate_inter_rater_statistics
    IN  [screening |->
            [title_abstract_phase |->
                [records_screened |-> self.initial_records,
                 records_excluded |-> self.title_abstract_excluded,
                 exclusion_breakdown |-> self.title_abstract_exclusions,
                 records_remaining |-> self.after_title_abstract],
             inter_rater_reliability |->
                [cohens_kappa |-> inter_rater_stats.cohens_kappa,
                 interpretation |-> inter_rater_stats.interpretation,
                 percent_agreement |-> inter_rater_stats.percent_agreement,
                 disagreement_rate |-> inter_rater_stats.disagreement_rate,
                 confusion_matrix |-> inter_rater_stats.confusion_matrix]],
         eligibility |->
            [full_text_assessment |->
                [articles_retrieved |-> self.full_text_assessed,
                 articles_excluded |-> self.full_text_excluded,
                 exclusion_categories |-> self.full_text_exclusions,
                 articles_included |-> self.final_included]],
         inclusion |-> [final_synthesis |-> self.final_included]]

\* The summary table with the third row's count taken from the records
\* assessed instead of the records included.
summary_data_assessed(self) ==
    <<[PRISMA_Phase |-> "Initial Database Search", Records_Count |-> self.initial_records,
       Excluded_Count |-> 0, Cumulative_Exclusion |-> 0],
      [PRISMA_Phase |-> "Title/Abstract Screening",
       Records_Count |-> self.after_title_abstract,
       Excluded_Count |-> self.title_abstract_excluded,
       Cumulative_Exclusion |-> self.title_abstract_excluded],
      [PRISMA_Phase |-> "Full-text Assessment", Records_Count |-> self.full_text_assessed,
       Excluded_Count |-> self.full_text_excluded,
       Cumulative_Exclusion |-> self.title_abstract_excluded + self.full_text_excluded],
      [PRISMA_Phase |-> "Final Inclusion", Records_Count |-> self.final_included,
       Excluded_Count |-> 0,
       Cumulative_Exclusion |-> self.title_abstract_excluded + self.full_text_excluded]>>

\* export_study_selection_data, lines 479-505: the rows of the summary table
summary_data(self) ==
    <<[PRISMA_Phase |-> "Initial Database Search", Records_Count |-> self.initial_records,
       Excluded_Count |-> 0, Cumulative_Exclusion |-> 0],
      [PRISMA_Phase |-> "Title/Abstract Screening",
       Records_Count |-> self.after_title_abstract,
       Excluded_Count |-> self.title_abstract_excluded,
       Cumulative_Exclusion |-> self.title_abstract_excluded],
      [PRISMA_Phase |-> "Full-text Assessment", Records_Count |-> self.final_included,
       Excluded_Count |-> self.full_text_excluded,
       Cumulative_Exclusion |-> self.title_abstract_excluded + self.full_text_excluded],
      [PRISMA_Phase |-> "Final Inclusion", Records_Count |-> self.final_included,
       Excluded_Count |-> 0,
       Cumulative_Exclusion |-> self.title_abstract_excluded + self.full_text_excluded]>>

\* prisma_config.STUDY_SELECTION_CONFIG, lines 63-93: the target numbers and
\* the two exclusion breakdowns
STUDY_SELECTION_CONFIG ==
    [target_numbers |->
        [initial_records |-> 462, title_abstract_excluded |-> 60,
         full_text_excluded |-> 314, final_included |-> 88],
     title_abstract_exclusions |->
        <<[reason |-> "duplicate_methodologies", count |-> 10],
          [reason |-> "insufficient_deep_learning", count |-> 10],
          [reason |-> "preliminary_results", count |-> 8],
          [reason |-> "no_spatial_resolution", count |-> 7],
          [reason |-> "non_cardiac_focus", count |-> 6],
          [reason |-> "insufficient_methodology", count |-> 6],
          [reason |-> "small_sample_sizes", count |-> 4],
          [reason |-> "theoretical_only", count |-> 4],
          [reason |-> "language_barriers", count |-> 3],
          [reason |-> "publication_type_mismatch", count |-> 3]>>,
     full_text_exclusions |->
        <<[reason |-> "not_cardiomyocyte_focused", count |-> 85],
          [reason |-> "methodological_overlap", count |-> 75],
          [reason |-> "insufficient_reproducibility", count |-> 60],
          [reason |-> "bulk_transcriptomics_only", count |-> 45],
          [reason |-> "no_spatial_integration", count |-> 35],
          [reason |-> "inadequate_deep_learning", count |-> 14]>>]

NotYet == [made |-> FALSE]

\* The state after prisma_runner's imports (line 18) and
\* PRISMAMethodology(random_seed=42) (line 27); the object's
\* calculate_cohens_kappa can be handed any matrix.
InitMethod ==
    /\ methodology = [self |-> PRISMAMethodology, config |-> STUDY_SELECTION_CONFIG,
                      results |-> NotYet, summary_df |-> NotYet]
    /\ confusion_matrix \in Matrices \cup {None}
    /\ kappa_out = NotCalled
    /\ script = "none"
    /\ input_file = [kind |-> "none"]
    /\ run = [pc |-> "idle"]
    /\ sims = <<>>
    /\ rng = <<>>
    /\ stream = {}
    /\ formatter = <<>>

\* results = prisma.generate_prisma_flow(), prisma_runner line 30
GeneratePrismaFlow ==
    /\ methodology' = [methodology EXCEPT
                          !.results = [made |-> TRUE,
                                       data |-> generate_prisma_flow(methodology.self)]]
    /\ UNCHANGED <<kappaVars, scriptVars, simVars, formatter>>

\* prisma.export_study_selection_data(results), prisma_runner line 35
ExportStudySelectionData ==
    /\ methodology.results.made
    /\ methodology' = [methodology EXCEPT
                          !.summary_df = [made |-> TRUE,
                                          rows |-> summary_data(methodology.self)]]
    /\ UNCHANGED <<kappaVars, scriptVars, simVars, formatter>>

NextMethod == CallKappa \/ NextMatrix \/ GeneratePrismaFlow \/ ExportStudySelectionData

SpecMethod == InitMethod /\ [][NextMethod]_vars

\* C12: in the methodology implementation the counts of
\* title_abstract_exclusions sum to title_abstract_excluded (60) and the
\* counts of full_text_exclusions sum to full_text_excluded (314), in the
\* object and in the data generate_prisma_flow returns.
C12_BreakdownsAccountForExclusions ==
    /\ SumCounts(methodology.self.title_abstract_exclusions) = 60
    /\ methodology.self.title_abstract_excluded = 60
    /\ SumCounts(methodology.self.full_text_exclusions) = 314
    /\ methodology.self.full_text_excluded = 314
    /\ methodology.results.made =>
          LET ta == methodology.results.data.screening.title_abstract_phase
              ft == methodology.results.data.eligibility.full_text_assessment
          IN  /\ SumCounts(ta.exclusion_breakdown) = ta.records_excluded
              /\ ta.records_excluded = 60
              /\ SumCounts(ft.exclusion_categories) = ft.articles_excluded
              /\ ft.articles_excluded = 314

\* generate_prisma_flow has returned its data, with the kappa of the
\* default matrix in it.
C12_Witness ==
    /\ methodology.results.made
    /\ methodology.results.data.screening.inter_rater_reliability.cohens_kappa = 876
    /\ Len(methodology.results.data.screening.title_abstract_phase.exclusion_breakdown) = 9

\* C13: after_title_abstract = initial_records - title_abstract_excluded =
\* full_text_assessed (402), full_text_assessed - full_text_excluded =
\* final_included (88); in the exported summary table each row's
\* Records_Count is the previous row's less the row's Excluded_Count, and
\* the last Cumulative_Exclusion plus final_included is initial_records.
C13_FlowConservation ==
    LET self == methodology.self
    IN  /\ self.after_title_abstract = self.initial_records - self.title_abstract_excluded
        /\ self.after_title_abstract = self.full_text_assessed
        /\ self.full_text_assessed = 402
        /\ self.full_text_assessed - self.full_text_excluded = self.final_included
        /\ self.final_included = 88
        /\ methodology.summary_df.made =>
              LET rows == methodology.summary_df.rows
              IN  /\ \A k \in 2..Len(rows) :
                        rows[k].Records_Count
                          = rows[k - 1].Records_Count - rows[k].Excluded_Count
                  /\ rows[Len(rows)].Cumulative_Exclusion + self.final_included
                        = self.initial_records

\* The summary table has been exported: four rows, from 462 down to 88.
C13_Witness ==
    /\ methodology.summary_df.made
    /\ Len(methodology.summary_df.rows) = 4
    /\ methodology.summary_df.rows[1].Records_Count = 462
    /\ methodology.summary_df.rows[3].Excluded_Count = 314
    /\ methodology.summary_df.rows[4].Records_Count = 88

\* C16: in STUDY_SELECTION_CONFIG the counts of title_abstract_exclusions
\* sum to target_numbers.title_abstract_excluded (60), the counts of
\* full_text_exclusions sum to target_numbers.full_text_excluded (314), and
\* initial_records - title_abstract_excluded - full_text_excluded =
\* final_included.
C16_ConfigIsConsistent ==
    LET config == methodology.config
        target == config.target_numbers
    IN  /\ SumCounts(config.title_abstract_exclusions) = target.title_abstract_excluded
        /\ target.title_abstract_excluded = 60
        /\ SumCounts(config.full_text_exclusions) = target.full_text_excluded
        /\ target.full_text_excluded = 314
        /\ target.initial_records - target.title_abstract_excluded
              - target.full_text_excluded = target.final_included

====
